---- MODULE Spec2Model ----
(***************************************************************************)
(* NetworkScheduler (src/main.py): a TDMA-style conflict-graph scheduler.  *)
(* The object's fields are the variables; every public method is one       *)
(* action, built from operators that follow the private methods line by    *)
(* line.                                                                   *)
(*                                                                         *)
(* Python sets of device ids iterate in an order fixed by the process's    *)
(* string hashing.  hashOrder is that order: every set of device ids is    *)
(* iterated as the subsequence of hashOrder it contains.  Dicts iterate    *)
(* in insertion order, so the dicts whose order is observable are          *)
(* sequences.                                                              *)
(***************************************************************************)
EXTENDS Integers, Sequences, FiniteSets, TLC

VARIABLES
    hashOrder,            \* iteration order of sets of device ids (never changes)
    devices,              \* self.devices
    original_packets,     \* self.original_packets: device -> rate
    connections,          \* self.connections: sender -> set of receivers
    total_transmissions,  \* self.total_transmissions: <<sender, receiver>> -> count
    interference_graph,   \* self.interference_graph: sequence of [node, nbrs], in key order
    shortest_path,        \* self.shortest_path: <<i, j>> -> hops (missing entries read 0)
    transmissions,        \* self.transmissions: the instance list of the last build
    result,               \* outcome of the most recent generate_schedule call
    optimized,            \* value returned by optimize_schedule, if it was the most recent call
    streak,               \* generate_schedule calls since the last add_device / add_transmission_path
    calls,                \* number of generate_schedule calls so far
    pc                    \* position in example_usage (0 when the methods are called freely)

vars == <<hashOrder, devices, original_packets, connections, total_transmissions,
          interference_graph, shortest_path, transmissions, result, optimized,
          streak, calls, pc>>

-----------------------------------------------------------------------------
(* Bounds *)

\* rates passed to add_device by the free caller: 0..MaxRate
MaxRate == 1
\* number of links the free caller registers
MaxLinks == 3
\* number of generate_schedule calls in one behaviour
MaxCalls == 2
\* packets generated per frame by all devices of a drawn topology together
MaxTopoPackets == 3

\* device ids of the free caller
DeviceIds == <<"A", "B", "C">>
\* device ids of the drawn topologies
TopoIds == <<"A", "B", "C", "D", "E", "F">>
RebuildIds == <<"A", "B", "C", "D">>
\* device ids of example_usage
ExampleIds == <<"A", "B", "C", "D", "E", "F", "G", "H">>

-----------------------------------------------------------------------------
(* Program constants *)

inf == 1000000000
MinHops == 3

-----------------------------------------------------------------------------
(* Helpers *)

Range(s) == {s[i] : i \in DOMAIN s}
Min(a, b) == IF a <= b THEN a ELSE b

Ids == Range(hashOrder)
Pairs == Ids \X Ids

\* f as an explicit table (TLC otherwise keeps a function as its defining
\* expression and evaluates it again at every application)
Table(f) == f @@ <<>>

\* `for x in S` for a set S of device ids
Iter(S) == SelectSeq(hashOrder, LAMBDA d : d \in S)

NoResult == [kind |-> "none", schedule |-> <<>>]
NoOptimized == [kind |-> "none", slots |-> <<>>]

-----------------------------------------------------------------------------
(* _calculate_shortest_path_between_all_nodes *)

\* lines 27-38: inf everywhere, 0 on the diagonal, then 1 on both directions of
\* every link (the last assignment wins, also on the diagonal for a self-link).
\* A pair with an unregistered device is never written and reads 0.
InitialPaths(devs, conn) ==
    [p \in Pairs |->
        IF p[1] \notin devs \/ p[2] \notin devs THEN 0
        ELSE IF p[2] \in conn[p[1]] \/ p[1] \in conn[p[2]] THEN 1
        ELSE IF p[1] = p[2] THEN 0
        ELSE inf]

\* lines 41-44 for one k_device.  Row k and column k do not change while k is
\* the intermediate device (sp[k][k] >= 0), so the in-place update of the
\* source equals this simultaneous one.
Relax(sp, k_device, devs) ==
    Table([p \in Pairs |->
              IF p[1] \in devs /\ p[2] \in devs
              THEN Min(sp[p], sp[<<p[1], k_device>>] + sp[<<k_device, p[2]>>])
              ELSE sp[p]])

\* lines 40-44: the loop over k_device
RECURSIVE FloydWarshall(_, _, _)
FloydWarshall(sp, ks, devs) ==
    IF ks = <<>> THEN sp
    ELSE FloydWarshall(Relax(sp, Head(ks), devs), Tail(ks), devs)

calculate_shortest_path_between_all_nodes(devs, conn) ==
    FloydWarshall(InitialPaths(devs, conn), Iter(devs), devs)

-----------------------------------------------------------------------------
(* _calculate_forwarding_requirements *)

\* Faulty variant of ClearedTransmissions: the counts of the previous call are kept
KeptTransmissions(tt) == tt

\* line 49
ClearedTransmissions(tt) == [p \in Pairs |-> 0]

\* Faulty variant of InDegree: a link from a device to itself is not counted
InDegreeIgnoringSelf(devs, conn) ==
    [d \in devs |-> Cardinality({s \in Ids \ {d} : d \in conn[s]})]

\* lines 52-55
InDegree(devs, conn) ==
    [d \in devs |-> Cardinality({s \in Ids : d \in conn[s]})]

\* Faulty variant of VisitNeighbors: the neighbour's packets are assigned, not added to
RECURSIVE VisitNeighborsAssign(_, _, _, _)
VisitNeighborsAssign(st, current, current_packets, nbrs) ==
    IF nbrs = <<>> THEN st
    ELSE LET neighbor == Head(nbrs)
             deg == st.in_degree[neighbor] - 1
             st1 == [queue |-> IF deg = 0 THEN Append(st.queue, neighbor) ELSE st.queue,
                     in_degree |-> [st.in_degree EXCEPT ![neighbor] = deg],
                     total_packets |-> [st.total_packets EXCEPT ![neighbor] = current_packets],
                     tt |-> [st.tt EXCEPT ![<<current, neighbor>>] = @ + current_packets]]
         IN  VisitNeighborsAssign(st1, current, current_packets, Tail(nbrs))

\* Faulty variant of VisitNeighbors: the neighbour's packets are left as they are
RECURSIVE VisitNeighborsNoForward(_, _, _, _)
VisitNeighborsNoForward(st, current, current_packets, nbrs) ==
    IF nbrs = <<>> THEN st
    ELSE LET neighbor == Head(nbrs)
             deg == st.in_degree[neighbor] - 1
             st1 == [queue |-> IF deg = 0 THEN Append(st.queue, neighbor) ELSE st.queue,
                     in_degree |-> [st.in_degree EXCEPT ![neighbor] = deg],
                     total_packets |-> st.total_packets,
                     tt |-> [st.tt EXCEPT ![<<current, neighbor>>] = @ + current_packets]]
         IN  VisitNeighborsNoForward(st1, current, current_packets, Tail(nbrs))

\* lines 69-79: the loop over the neighbours of current
RECURSIVE VisitNeighbors(_, _, _, _)
VisitNeighbors(st, current, current_packets, nbrs) ==
    IF nbrs = <<>> THEN st
    ELSE LET neighbor == Head(nbrs)
             deg == st.in_degree[neighbor] - 1
             st1 == [queue |-> IF deg = 0 THEN Append(st.queue, neighbor) ELSE st.queue,
                     in_degree |-> [st.in_degree EXCEPT ![neighbor] = deg],
                     total_packets |-> [st.total_packets EXCEPT ![neighbor] = @ + current_packets],
                     tt |-> [st.tt EXCEPT ![<<current, neighbor>>] = @ + current_packets]]
         IN  VisitNeighbors(st1, current, current_packets, Tail(nbrs))

\* lines 65-79: the loop over the queue
RECURSIVE DrainQueue(_, _)
DrainQueue(st, conn) ==
    IF st.queue = <<>> THEN st
    ELSE LET current == Head(st.queue)
         IN  DrainQueue(VisitNeighbors([st EXCEPT !.queue = Tail(@)], current,
                                       st.total_packets[current], Iter(conn[current])),
                        conn)

\* lines 47-83; cyclic is the condition of the raise at line 82
calculate_forwarding_requirements(devs, packets, conn, tt) ==
    LET deg0 == InDegree(devs, conn)
        st0 == [queue |-> Iter({d \in devs : deg0[d] = 0}),
                in_degree |-> deg0,
                total_packets |-> [d \in devs |-> packets[d]],
                tt |-> ClearedTransmissions(tt)]
        st == DrainQueue(st0, conn)
    IN  [tt |-> st.tt,
         total_packets |-> st.total_packets,
         cyclic |-> \E d \in devs : st.in_degree[d] > 0]

-----------------------------------------------------------------------------
(* _build_interference_graph *)

\* lines 88-92.  total_transmissions[sender] holds its receivers in the order
\* the sender's neighbours were visited, which is the order of Iter; a pair
\* that was never recorded has count 0 and contributes nothing.
RECURSIVE ExpandFrom(_, _, _)
ExpandFrom(k, tt, devs) ==
    LET n == Len(hashOrder)
        sender == hashOrder[(k \div n) + 1]
        receiver == hashOrder[(k % n) + 1]
    IN  IF k >= n * n THEN <<>>
        ELSE IF sender \in devs
             THEN [i \in 1..tt[<<sender, receiver>>] |-> <<sender, receiver>>]
                  \o ExpandFrom(k + 1, tt, devs)
             ELSE ExpandFrom(k + 1, tt, devs)

ExpandTransmissions(tt, devs) == ExpandFrom(0, tt, devs)

\* Faulty variant of Interfere: the condition sender2 == receiver1 is missing
InterfereOneWay(trans1, trans2) ==
    \/ trans1[1] = trans2[1]
    \/ trans1[2] = trans2[2]
    \/ trans1[1] = trans2[2]

\* lines 107-110
Interfere(trans1, trans2) ==
    \/ trans1[1] = trans2[1]
    \/ trans1[2] = trans2[2]
    \/ trans1[1] = trans2[2]
    \/ trans2[1] = trans1[2]

\* The keys of the graph, in insertion order
Keys(ig) == [k \in DOMAIN ig |-> ig[k].node]

\* lines 97-112 for one i: every j > i that interferes with i becomes a neighbour
\* of i and gets i as a neighbour.  A missing key is created at the end of the
\* dict when it is first written: i at its first such j, then each j in turn.
ScanRow(ig, trs, i) ==
    LET js == {j \in (i + 1)..(Len(trs) - 1) : Interfere(trs[i + 1], trs[j + 1])}
        old == Range(Keys(ig))
        Updated(e) ==
            IF e.node = i THEN [e EXCEPT !.nbrs = @ \cup js]
            ELSE IF e.node \in js THEN [e EXCEPT !.nbrs = @ \cup {i}]
            ELSE e
        created == SelectSeq([k \in 1..Len(trs) |-> k - 1],
                             LAMBDA n : n \notin old /\ (n \in js \/ (n = i /\ js # {})))
    IN  [k \in DOMAIN ig |-> Updated(ig[k])]
        \o [k \in DOMAIN created |->
               [node |-> created[k],
                nbrs |-> IF created[k] = i THEN js ELSE {i}]]

\* lines 95-112, instance indices from 0 as in the source
RECURSIVE ScanPairs(_, _, _)
ScanPairs(ig, trs, i) ==
    IF i >= Len(trs) THEN ig
    ELSE ScanPairs(ScanRow(ig, trs, i), trs, i + 1)

\* lines 85-114: the graph of the previous call is the starting point
build_interference_graph(ig, trs) == ScanPairs(ig, trs, 0)

-----------------------------------------------------------------------------
(* _color_graph *)

\* lines 121-123: sorted(..., reverse=True) is stable
RECURSIVE SortedByDegree(_, _)
SortedByDegree(ig, d) ==
    IF d < 0 THEN <<>>
    ELSE SelectSeq(ig, LAMBDA e : Cardinality(e.nbrs) = d) \o SortedByDegree(ig, d - 1)

MaxDegree(ig) ==
    IF ig = <<>> THEN 0
    ELSE CHOOSE d \in {Cardinality(ig[k].nbrs) : k \in DOMAIN ig} :
            \A k \in DOMAIN ig : Cardinality(ig[k].nbrs) <= d

\* Faulty variant of FirstFree: `if color in used_colors` for the `while`
FirstFreeOneStep(used) == IF 0 \in used THEN 1 ELSE 0

\* lines 130-132
FirstFree(used) ==
    CHOOSE c \in 0..Cardinality(used) : c \notin used /\ \A b \in 0..(c - 1) : b \in used

\* lines 125-133
RECURSIVE Greedy(_, _)
Greedy(nodes, colors) ==
    IF nodes = <<>> THEN colors
    ELSE LET e == Head(nodes)
             used_colors == {colors[n] : n \in (e.nbrs \cap DOMAIN colors)}
         IN  Greedy(Tail(nodes), colors @@ (e.node :> FirstFree(used_colors)))

\* lines 116-135: the nodes in colouring order, and their colours
color_graph(ig) ==
    LET nodes == SortedByDegree(ig, MaxDegree(ig))
    IN  [order |-> [k \in DOMAIN nodes |-> nodes[k].node],
         colors |-> Greedy(nodes, <<>>)]

-----------------------------------------------------------------------------
(* generate_schedule *)

\* lines 145-155, given the colouring.  self.transmissions[trans_id] raises
\* IndexError for a node that is no index of the instance list.
GroupBySlot(coloring, trs) ==
    LET order == coloring.order
        colors == coloring.colors
        max_slot == IF order = <<>> THEN -1
                    ELSE CHOOSE m \in Range(colors) : \A c \in Range(colors) : c <= m
        InSlot(slot) == SelectSeq(order, LAMBDA n : colors[n] = slot)
    IN  IF \E k \in DOMAIN order : order[k] >= Len(trs)
        THEN [kind |-> "IndexError", schedule |-> <<>>]
        ELSE [kind |-> "schedule",
              schedule |-> [s \in 1..(max_slot + 1) |->
                               LET ids == InSlot(s - 1)
                               IN  [k \in DOMAIN ids |-> trs[ids[k] + 1]]]]

\* lines 137-155 as a function of the object's fields: the new fields and the outcome
Generate(devs, packets, conn, tt, ig, trs) ==
    LET sp == calculate_shortest_path_between_all_nodes(devs, conn)
        fw == calculate_forwarding_requirements(devs, packets, conn, tt)
        newtrs == ExpandTransmissions(fw.tt, devs)
        newig == build_interference_graph(ig, newtrs)
    IN  IF fw.cyclic
        THEN [shortest_path |-> sp, total_transmissions |-> fw.tt,
              interference_graph |-> ig, transmissions |-> trs,
              result |-> [kind |-> "ValueError", schedule |-> <<>>]]
        ELSE [shortest_path |-> sp, total_transmissions |-> fw.tt,
              interference_graph |-> newig, transmissions |-> newtrs,
              result |-> GroupBySlot(color_graph(newig), newtrs)]

-----------------------------------------------------------------------------
(* optimize_schedule *)

\* Faulty variant of check_shortest_path: only path1 is looked at
check_shortest_path_one_way(sp, transmission1, transmission2) ==
    sp[<<transmission1[1], transmission2[2]>>]

\* lines 161-165
check_shortest_path(sp, transmission1, transmission2) ==
    Min(sp[<<transmission1[1], transmission2[2]>>],
        sp[<<transmission1[2], transmission2[1]>>])

\* lines 180-194: the loop over j
RECURSIVE Gather(_, _, _, _)
Gather(sp, trs, j, added_transmissions) ==
    IF j > Len(trs) THEN added_transmissions
    ELSE LET transmission_y == trs[j]
             check == \A k \in DOMAIN added_transmissions :
                         ~(check_shortest_path(sp, transmission_y, added_transmissions[k]) < MinHops)
         IN  Gather(sp, trs, j + 1,
                    IF check THEN Append(added_transmissions, transmission_y)
                    ELSE added_transmissions)

\* lines 171-196: the loop over i
RECURSIVE Channels(_, _, _, _, _)
Channels(sp, trs, i, added_transmissions_check, channel) ==
    IF i > Len(trs) THEN channel
    ELSE IF trs[i] \in added_transmissions_check
    THEN Channels(sp, trs, i + 1, added_transmissions_check, channel)
    ELSE LET added == Gather(sp, trs, i + 1, <<trs[i]>>)
         IN  Channels(sp, trs, i + 1, added_transmissions_check \cup Range(added),
                      Append(channel, added))

\* lines 157-200
optimize_schedule_of(schedule, sp) ==
    [s \in DOMAIN schedule |-> Channels(sp, schedule[s], 1, {}, <<>>)]

-----------------------------------------------------------------------------
(* The methods as actions *)

Bookkeeping(s, c) == streak' = s /\ calls' = c /\ optimized' = NoOptimized

\* lines 14-17
add_device(device_id, packets) ==
    /\ devices' = devices \cup {device_id}
    /\ original_packets' = (device_id :> packets) @@ original_packets
    /\ Bookkeeping(0, calls)
    /\ UNCHANGED <<hashOrder, connections, total_transmissions, interference_graph,
                   shortest_path, transmissions, result>>

\* lines 19-23; the call that raises ValueError changes nothing
add_transmission_path(sender, receiver) ==
    /\ sender \in devices
    /\ receiver \in devices
    /\ connections' = [connections EXCEPT ![sender] = @ \cup {receiver}]
    /\ Bookkeeping(0, calls)
    /\ UNCHANGED <<hashOrder, devices, original_packets, total_transmissions,
                   interference_graph, shortest_path, transmissions, result>>

\* lines 137-155
generate_schedule ==
    LET g == Generate(devices, original_packets, connections, total_transmissions,
                      interference_graph, transmissions)
    IN  /\ shortest_path' = g.shortest_path
        /\ total_transmissions' = g.total_transmissions
        /\ interference_graph' = g.interference_graph
        /\ transmissions' = g.transmissions
        /\ result' = g.result
        /\ Bookkeeping(streak + 1, calls + 1)
        /\ UNCHANGED <<hashOrder, devices, original_packets, connections>>

\* lines 157-200, applied to the schedule generate_schedule returned
optimize_schedule ==
    /\ result.kind = "schedule"
    /\ optimized' = [kind |-> "channels",
                     slots |-> optimize_schedule_of(result.schedule, shortest_path)]
    /\ UNCHANGED <<hashOrder, devices, original_packets, connections, total_transmissions,
                   interference_graph, shortest_path, transmissions, result, streak, calls>>

-----------------------------------------------------------------------------
(* A caller that uses the methods freely *)

\* lines 5-12
NewScheduler(order) ==
    /\ hashOrder = order
    /\ devices = {}
    /\ original_packets = <<>>
    /\ connections = [d \in Range(order) |-> {}]
    /\ total_transmissions = [p \in Range(order) \X Range(order) |-> 0]
    /\ interference_graph = <<>>
    /\ shortest_path = [p \in Range(order) \X Range(order) |-> 0]
    /\ transmissions = <<>>
    /\ result = NoResult
    /\ optimized = NoOptimized
    /\ streak = 0
    /\ calls = 0

NumLinks == Cardinality({p \in Pairs : p[2] \in connections[p[1]]})

Init == NewScheduler(DeviceIds) /\ pc = 0

Next ==
    \/ \E d \in Ids, p \in 0..MaxRate : add_device(d, p) /\ UNCHANGED pc
    \/ \E s \in Ids, r \in Ids :
          /\ r \in connections[s] \/ NumLinks < MaxLinks
          /\ add_transmission_path(s, r) /\ UNCHANGED pc
    \/ calls < MaxCalls /\ generate_schedule /\ UNCHANGED pc
    \/ optimize_schedule /\ UNCHANGED pc

Spec == Init /\ [][Next]_vars

-----------------------------------------------------------------------------
(* Schedulers built with a topology drawn from a family of forests: the     *)
(* devices of ids all registered, their rates adding up to at most          *)
(* MaxTopoPackets, and any set of links between neighbours of the chain     *)
(* ids[1] - ids[2] - ...                                                    *)

RECURSIVE SumOver(_, _)
SumOver(f, S) ==
    IF S = {} THEN 0
    ELSE LET x == CHOOSE y \in S : TRUE IN f[x] + SumOver(f, S \ {x})

ChainLinks(ids) == {<<ids[i], ids[i + 1]>> : i \in 1..(Len(ids) - 1)}

BuiltScheduler(ids, orders) ==
    /\ hashOrder \in orders
    /\ devices = Range(ids)
    /\ original_packets \in {f \in [Range(ids) -> 0..MaxTopoPackets] :
                                SumOver(f, Range(ids)) <= MaxTopoPackets}
    /\ \E links \in SUBSET ChainLinks(ids) :
          connections = [d \in Range(ids) |-> {r \in Range(ids) : <<d, r>> \in links}]
    /\ total_transmissions = [p \in Range(ids) \X Range(ids) |-> 0]
    /\ interference_graph = <<>>
    /\ shortest_path = [p \in Range(ids) \X Range(ids) |-> 0]
    /\ transmissions = <<>>
    /\ result = NoResult
    /\ optimized = NoOptimized
    /\ streak = 0
    /\ calls = 0
    /\ pc = 0

\* The pipeline of example_usage on a drawn topology of six devices:
\* generate_schedule once, then optimize_schedule.

\* iteration orders sampled for the six devices
TopoOrders == {TopoIds, <<"A", "C", "F", "B", "D", "E">>}

InitTopo == BuiltScheduler(TopoIds, TopoOrders)

NextTopo ==
    \/ result.kind = "none" /\ generate_schedule /\ UNCHANGED pc
    \/ optimize_schedule /\ UNCHANGED pc

SpecTopo == InitTopo /\ [][NextTopo]_vars

\* A drawn topology of four devices whose caller generates, optimizes and,
\* while it will generate again, registers further chain links.

\* iteration orders sampled for the four devices
RebuildOrders == {RebuildIds, <<"C", "A", "D", "B">>}

InitRebuild == BuiltScheduler(RebuildIds, RebuildOrders)

NextRebuild ==
    \/ \E l \in ChainLinks(RebuildIds) :
          calls < MaxCalls /\ add_transmission_path(l[1], l[2]) /\ UNCHANGED pc
    \/ calls < MaxCalls /\ generate_schedule /\ UNCHANGED pc
    \/ optimize_schedule /\ UNCHANGED pc

SpecRebuild == InitRebuild /\ [][NextRebuild]_vars

-----------------------------------------------------------------------------
(* example_usage, lines 224-244, statement by statement *)

ExampleLinks ==
    << <<"A", "B">>, <<"A", "C">>, <<"B", "D">>, <<"C", "D">>,
       <<"D", "E">>, <<"E", "F">>, <<"F", "G">>, <<"G", "H">> >>

RECURSIVE Orders(_)
Orders(S) ==
    IF S = {} THEN {<<>>}
    ELSE UNION {{<<x>> \o o : o \in Orders(S \ {x})} : x \in S}

\* H sends nothing, so its place in the order decides no loop's outcome: the
\* orders of the other seven devices, with H last
ExampleOrders == {o \o <<"H">> : o \in Orders(Range(ExampleIds) \ {"H"})}

InitExample ==
    /\ \E order \in ExampleOrders : NewScheduler(order)
    /\ pc = 1

example_usage ==
    \/ /\ pc \in 1..Len(ExampleIds)
       /\ add_device(ExampleIds[pc], 1)
       /\ pc' = pc + 1
    \/ /\ pc \in (Len(ExampleIds) + 1)..(Len(ExampleIds) + Len(ExampleLinks))
       /\ add_transmission_path(ExampleLinks[pc - Len(ExampleIds)][1],
                                ExampleLinks[pc - Len(ExampleIds)][2])
       /\ pc' = pc + 1
    \/ /\ pc = Len(ExampleIds) + Len(ExampleLinks) + 1
       /\ generate_schedule
       /\ pc' = pc + 1
    \/ /\ pc = Len(ExampleIds) + Len(ExampleLinks) + 2
       /\ optimize_schedule
       /\ pc' = pc + 1

SpecExample == InitExample /\ [][example_usage]_vars

-----------------------------------------------------------------------------
(* Notions the properties are stated with, defined without the scheduler's  *)
(* own computations                                                         *)

\* the devices reached from S by one to n links
RECURSIVE ReachFrom(_, _)
ReachFrom(S, n) ==
    IF n = 0 THEN {}
    ELSE LET T == UNION {connections[d] : d \in S} IN T \cup ReachFrom(T, n - 1)

\* the directed link graph has a directed cycle (a self-link included)
HasCycle == \E d \in devices : d \in ReachFrom({d}, Cardinality(Ids))

\* own rate plus the requirements of the links entering u
PacketTotal(u) ==
    original_packets[u]
    + SumOver([w \in Ids |-> IF u \in connections[w] THEN total_transmissions[<<w, u>>] ELSE 0],
              Ids)

\* fewer than three hops apart over the undirected links
Adjacent(u, v) == v \in connections[u] \/ u \in connections[v]
Near(u, v) == u = v \/ Adjacent(u, v) \/ \E w \in devices : Adjacent(u, w) /\ Adjacent(w, v)

\* number of places of the schedule that hold the pair p
Scheduled(schedule, p) ==
    Cardinality({sk \in UNION {{<<s, k>> : k \in DOMAIN schedule[s]} : s \in DOMAIN schedule} :
                    schedule[sk[1]][sk[2]] = p})

\* the graph holds an edge of an earlier call between two instances that do
\* not interfere now
StaleEdge ==
    \E k \in DOMAIN interference_graph :
        \E n \in interference_graph[k].nbrs :
            /\ interference_graph[k].node < Len(transmissions)
            /\ n < Len(transmissions)
            /\ ~Interfere(transmissions[interference_graph[k].node + 1], transmissions[n + 1])

-----------------------------------------------------------------------------
(* Properties *)

\* C1: the schedule returned by the first generate_schedule call on an acyclic
\* topology holds every link exactly as many times as its required
\* transmission count.
EveryInstanceScheduled ==
    (calls = 1 /\ streak > 0 /\ result.kind = "schedule") =>
        \A p \in Pairs : Scheduled(result.schedule, p) = total_transmissions[p]

\* C2: in every returned schedule, of a first or a later call, no two
\* transmissions of one slot share a sender, share a receiver, or have the
\* receiver of one equal to the sender of the other.
SlotsConflictFree ==
    result.kind = "schedule" =>
        \A s \in DOMAIN result.schedule :
            \A i, j \in DOMAIN result.schedule[s] :
                i < j =>
                    LET t == result.schedule[s][i]
                        u == result.schedule[s][j]
                    IN  t[1] # u[1] /\ t[2] # u[2] /\ t[2] # u[1] /\ u[2] # t[1]

\* C2 witness: a second call, made after a link was registered, works on a graph
\* that still holds an edge of the first call and returns a slot of two transmissions
SlotsConflictFreeWitness ==
    /\ result.kind = "schedule"
    /\ calls = 2
    /\ streak = 1
    /\ StaleEdge
    /\ \E s \in DOMAIN result.schedule : Len(result.schedule[s]) >= 2

ChannelsPartitionSlots ==
    optimized.kind = "channels" =>
        /\ DOMAIN optimized.slots = DOMAIN result.schedule
        /\ \A s \in DOMAIN result.schedule :
              /\ \A k \in DOMAIN result.schedule[s] :
                    Cardinality({c \in DOMAIN optimized.slots[s] :
                                    result.schedule[s][k] \in Range(optimized.slots[s][c])}) = 1
              /\ \A c \in DOMAIN optimized.slots[s] :
                    Range(optimized.slots[s][c]) \subseteq Range(result.schedule[s])

\* C5: after generate_schedule on an acyclic topology the requirement of every
\* link u->v is the packet total of u, and no other pair has a requirement.
RequirementsArePacketTotals ==
    (streak > 0 /\ ~HasCycle) =>
        \A p \in Pairs :
            total_transmissions[p] =
                IF p[2] \in connections[p[1]] THEN PacketTotal(p[1]) ELSE 0

\* C5 witness: a link that carries forwarded packets on top of its sender's own
RequirementsArePacketTotalsWitness ==
    /\ streak > 0
    /\ ~HasCycle
    /\ \E p \in Pairs :
          /\ p[2] \in connections[p[1]]
          /\ original_packets[p[1]] > 0
          /\ total_transmissions[p] > original_packets[p[1]]

\* C6: generate_schedule fails with the cycle error exactly when the link graph
\* has a directed cycle, it returns no schedule then, and the first call on an
\* acyclic topology does not fail.
CycleErrorIffCycle ==
    streak > 0 =>
        /\ (result.kind = "ValueError") <=> HasCycle
        /\ result.kind = "ValueError" => result.schedule = <<>>
        /\ (calls = 1 /\ ~HasCycle) => result.kind = "schedule"

\* C6 witness: the call failed although the acyclic part of the topology had
\* been processed
CycleErrorIffCycleWitness ==
    /\ streak > 0
    /\ result.kind = "ValueError"
    /\ \E p \in Pairs : total_transmissions[p] > 0

\* C7: a generate_schedule call that follows another with no add_device or
\* add_transmission_path in between returns what that call returned and leaves
\* the devices, the links and the rates as they were.
RepeatedCallSameSchedule ==
    [][(calls' = calls + 1 /\ streak > 0) =>
          /\ result' = result
          /\ devices' = devices
          /\ connections' = connections
          /\ original_packets' = original_packets]_vars

\* C7 witness: a repeated call returned a schedule of several slots
RepeatedCallSameScheduleWitness ==
    /\ streak >= 2
    /\ result.kind = "schedule"
    /\ Len(result.schedule) >= 2

\* C8 as claimed: the requirements of Scenario 1 are A->B=1, A->C=1, B->D=1,
\* C->D=1, D->E=2, E->F=2, F->G=2, G->H=2.
ScenarioRequirementsAsClaimed ==
    pc > Len(ExampleIds) + Len(ExampleLinks) + 1 =>
        /\ total_transmissions[<<"A", "B">>] = 1
        /\ total_transmissions[<<"A", "C">>] = 1
        /\ total_transmissions[<<"B", "D">>] = 1
        /\ total_transmissions[<<"C", "D">>] = 1
        /\ total_transmissions[<<"D", "E">>] = 2
        /\ total_transmissions[<<"E", "F">>] = 2
        /\ total_transmissions[<<"F", "G">>] = 2
        /\ total_transmissions[<<"G", "H">>] = 2

\* C8 amended: the requirements of Scenario 1 are A->B=1, A->C=1, B->D=2,
\* C->D=2, D->E=5, E->F=6, F->G=7, G->H=8.
ScenarioRequirements ==
    pc > Len(ExampleIds) + Len(ExampleLinks) + 1 =>
        /\ total_transmissions[<<"A", "B">>] = 1
        /\ total_transmissions[<<"A", "C">>] = 1
        /\ total_transmissions[<<"B", "D">>] = 2
        /\ total_transmissions[<<"C", "D">>] = 2
        /\ total_transmissions[<<"D", "E">>] = 5
        /\ total_transmissions[<<"E", "F">>] = 6
        /\ total_transmissions[<<"F", "G">>] = 7
        /\ total_transmissions[<<"G", "H">>] = 8

\* C8 witness: example_usage has generated the schedule of Scenario 1
ScenarioRequirementsWitness ==
    /\ pc > Len(ExampleIds) + Len(ExampleLinks) + 1
    /\ result.kind = "schedule"
    /\ \A k \in DOMAIN ExampleLinks : total_transmissions[ExampleLinks[k]] > 0

ChainLinksOfExample == {<<"D", "E">>, <<"E", "F">>, <<"F", "G">>, <<"G", "H">>}

\* C9 as claimed: in the schedule of Scenario 1 no slot holds transmissions of
\* two different links among D->E, E->F, F->G, G->H.
ChainSlotsMutuallyDistinct ==
    pc > Len(ExampleIds) + Len(ExampleLinks) + 1 =>
        /\ result.kind = "schedule"
        /\ \A s \in DOMAIN result.schedule :
              \A t, u \in Range(result.schedule[s]) \cap ChainLinksOfExample : t = u

\* C9 amended: in the schedule of Scenario 1 no slot holds transmissions of two
\* different links among D->E, E->F, F->G, G->H that share a device.
NeighbouringChainSlotsDistinct ==
    pc > Len(ExampleIds) + Len(ExampleLinks) + 1 =>
        /\ result.kind = "schedule"
        /\ \A s \in DOMAIN result.schedule :
              \A t, u \in Range(result.schedule[s]) \cap ChainLinksOfExample :
                  (t[2] = u[1] \/ u[2] = t[1]) => t = u

\* C9 witness: every chain link is scheduled, and D->E shares a slot with F->G
NeighbouringChainSlotsDistinctWitness ==
    /\ pc > Len(ExampleIds) + Len(ExampleLinks) + 1
    /\ result.kind = "schedule"
    /\ \A l \in ChainLinksOfExample :
          \E s \in DOMAIN result.schedule : l \in Range(result.schedule[s])
    /\ \E s \in DOMAIN result.schedule :
          {<<"D", "E">>, <<"F", "G">>} \subseteq Range(result.schedule[s])

\* C10: a generate_schedule call has the outcome of generate_schedule on a newly
\* constructed scheduler holding the same devices, rates and links.
SameAsNewScheduler ==
    streak > 0 =>
        result = Generate(devices, original_packets, connections,
                          [p \in Pairs |-> 0], <<>>, <<>>).result

====
